---- MODULE Spec2Model ----
(***************************************************************************)
(* Model of agile_oct_telegram.py: the window-cost engine (process_prices) *)
(* and the run-once pipeline (main) around it.                             *)
(*                                                                         *)
(* Money is fixed point.  value_exc_vat is in hundredths of a penny, cost  *)
(* and prices before rounding are in thousandths, values after             *)
(* result.round(1) are in tenths.  valid_from is the half-hour slot number.*)
(***************************************************************************)
EXTENDS Integers, Sequences, FiniteSets, TLC

VARIABLES
    rates,        \* engine: the rates handed to process_prices
    result,       \* engine: what process_prices returned, or that it raised
    marker,       \* LAST_RUN_FILE: whether it exists and its text
    today,        \* the current Europe/London calendar date
    pc,           \* per invocation of main: the statement it is at
    fetched,      \* per invocation: the value of the local variable rates
    steps,        \* per invocation: the calls that have returned normally
    guardDay,     \* per invocation: the date read by has_already_run_today
    guardWrites,  \* per invocation: marker writes that preceded its guard
    markSeq,      \* per invocation: sequence number of its own marker write
    markWrites,   \* number of completed marker writes
    chartDay,     \* per invocation: the date its chart was posted (0: none)
    tableDay,     \* per invocation: the date its table was posted (0: none)
    errorSent     \* per invocation: its error notification was posted

vars == <<rates, result, marker, today, pc, fetched, steps, guardDay,
          guardWrites, markSeq, markWrites, chartDay, tableDay, errorSent>>

pipeVars == <<marker, today, pc, fetched, steps, guardDay, guardWrites,
              markSeq, markWrites, chartDay, tableDay, errorSent>>

-----------------------------------------------------------------------------
(* Bounds *)

MaxLen == 9

MaxInv == 2

MaxDay == 2

Values == {-100, 502}

-----------------------------------------------------------------------------
(* Program constants, scaled *)

GO_PRICE == 9

charge_rate_30_min == 22

go_sc == 41740

agile_sc == 59260

Durations == 1..7

-----------------------------------------------------------------------------
(* A missing value (NaN) is the empty tuple, a present value v is <<v>>. *)

NaN == <<>>

IsNaN(x) == x = <<>>

Val(x) == x[1]

Abs(x) == IF x < 0 THEN -x ELSE x

(* A function on 1..k as an explicit tuple of its values. *)
AsSeq(f) == f \o <<>>

RECURSIVE SumRange(_, _, _)
SumRange(s, a, b) == IF a > b THEN 0 ELSE s[a] + SumRange(s, a + 1, b)

(* series.rolling(window=w, min_periods=mp).sum(): position j holds the sum *)
(* of the w positions ending at j, clipped at the start of the series, and  *)
(* is missing when fewer than mp positions are available.                   *)
Rolling(s, w, mp) ==
    AsSeq([j \in 1..Len(s) |->
        LET lo == IF j - w + 1 < 1 THEN 1 ELSE j - w + 1
        IN  IF j - lo + 1 >= mp THEN <<SumRange(s, lo, j)>> ELSE NaN])

(* Series.shift(-n): position i takes the value of position i+n; the last n *)
(* positions have no source and are filled with the missing value.          *)
ShiftBack(s, n) ==
    AsSeq([i \in 1..Len(s) |-> IF i + n <= Len(s) THEN s[i + n] ELSE NaN])

sum_current_and_next_n(series, n) == ShiftBack(Rolling(series, n + 1, 1), n)

(* DataFrame(rates).sort_values(by="valid_from"): rows keep their original  *)
(* index label (position in the input).                                     *)
Frame(rs) == AsSeq([k \in 1..Len(rs) |->
                [label |-> k, valid_from |-> rs[k].valid_from,
                 value_exc_vat |-> rs[k].value_exc_vat]])

(* Row k comes before row j in ascending valid_from order. *)
Before(rows, k, j) ==
    \/ rows[k].valid_from < rows[j].valid_from
    \/ (rows[k].valid_from = rows[j].valid_from /\ k < j)

SortByValidFrom(rows) ==
    AsSeq([i \in 1..Len(rows) |->
        rows[CHOOSE k \in 1..Len(rows) :
                Cardinality({j \in 1..Len(rows) : Before(rows, j, k)}) = i - 1]])

SortedFrame(rs) == SortByValidFrom(Frame(rs))

CostColumn(df) ==
    AsSeq([i \in 1..Len(df) |-> df[i].value_exc_vat * charge_rate_30_min])

DurationColumn(df, n) == sum_current_and_next_n(CostColumn(df), n)

(* Series.min() skips missing values; a column with none present is NaN. *)
ColMin(col) ==
    LET present == {i \in 1..Len(col) : ~IsNaN(col[i])}
    IN  IF present = {} THEN NaN
        ELSE <<Val(col[CHOOSE i \in present :
                          \A j \in present : Val(col[i]) <= Val(col[j])])>>

(* idxmin taking the last occurrence of the minimum instead of the first. *)
ColIdxMinLast(col) ==
    LET present == {i \in 1..Len(col) : ~IsNaN(col[i])}
    IN  IF present = {} THEN NaN
        ELSE <<CHOOSE i \in present :
                  /\ \A j \in present : Val(col[i]) <= Val(col[j])
                  /\ \A j \in present : Val(col[j]) = Val(col[i]) => j <= i>>

(* Series.idxmin(): position of the first occurrence of the minimum among   *)
(* the present values; NaN (no position) when none is present.              *)
ColIdxMin(col) ==
    LET present == {i \in 1..Len(col) : ~IsNaN(col[i])}
    IN  IF present = {} THEN NaN
        ELSE <<CHOOSE i \in present :
                  /\ \A j \in present : Val(col[i]) <= Val(col[j])
                  /\ \A j \in present : Val(col[j]) = Val(col[i]) => i <= j>>

(* DataFrame.round(1): nearest tenth, halves to the even tenth.  num/den is *)
(* the exact value in tenths.                                               *)
RoundHalfEven(num, den) ==
    LET q == num \div den
        r == num % den
    IN  IF 2 * r < den THEN q
        ELSE IF 2 * r > den THEN q + 1
        ELSE IF q % 2 = 0 THEN q ELSE q + 1

Round1(t) == RoundHalfEven(t, 100)

(* go_price = GO_PRICE * hours * 2 * charge_rate_30_min + go_sc, with       *)
(* hours = 0.5*n + 0.5, so hours * 2 = n + 1.                               *)
GoPrice(n) == GO_PRICE * (n + 1) * charge_rate_30_min * 100 + go_sc

(* agile_price = min_prices + agile_sc, for a column whose minimum exists. *)
AgilePrice(col) == Val(ColMin(col)) + agile_sc

(* np.where with the two labels exchanged. *)
WinnerSwapped(go, agile) == IF go < agile THEN "agile" ELSE "go"

Winner(go, agile) == IF go < agile THEN "go" ELSE "agile"

PriceDiff(go, agile) == Abs(go - agile)

Rate(w, go, agile, n) ==
    RoundHalfEven(IF w = "go" THEN go ELSE agile, (n + 1) * charge_rate_30_min * 10)

(* idxmin gives an index label; df.loc[label, "valid_from"] reads the row   *)
(* carrying that label.                                                     *)
StartTime(df, col) ==
    LET pos == Val(ColIdxMin(col))
        lbl == df[pos].label
        row == CHOOSE i \in 1..Len(df) : df[i].label = lbl
    IN  df[row].valid_from

(* process_prices raises when the frame has no valid_from column (empty     *)
(* input) or when some duration column has no present value, so that idxmin *)
(* yields no label and the df.loc lookup fails.                             *)
ProcessRaises(rs) ==
    \/ Len(rs) = 0
    \/ LET df == SortedFrame(rs)
       IN  \E n \in Durations : IsNaN(ColIdxMin(DurationColumn(df, n)))

ResultRow(df, n) ==
    LET go == GoPrice(n)
        col == DurationColumn(df, n)
        agile == AgilePrice(col)
        w == Winner(go, agile)
    IN  [hours |-> 5 * n + 5,
         time |-> StartTime(df, col),
         go_price |-> Round1(go),
         agile_price |-> Round1(agile),
         winner |-> w,
         price_diff |-> Round1(PriceDiff(go, agile)),
         rate |-> Rate(w, go, agile, n)]

process_prices(rs) ==
    IF ProcessRaises(rs) THEN [raised |-> TRUE, rows |-> <<>>]
    ELSE LET df == SortedFrame(rs)
         IN  [raised |-> FALSE,
              rows |-> AsSeq([n \in Durations |-> ResultRow(df, n)])]

-----------------------------------------------------------------------------
(* Engine specification: process_prices applied to a bounded series.        *)

Orders(L) ==
    { [k \in 1..L |-> k],
      [k \in 1..L |-> L + 1 - k],
      [k \in 1..L |-> (k % L) + 1] }

RatesOf(vals, ord) ==
    AsSeq([k \in 1..Len(ord) |->
            [valid_from |-> ord[k], value_exc_vat |-> vals[ord[k]]]])


Pending == [raised |-> FALSE, rows |-> <<>>]

NoFile == [exists |-> FALSE, text |-> <<>>]

FileWith(txt) == [exists |-> TRUE, text |-> txt]

NotFetched == [got |-> FALSE, rates |-> <<>>]

InitPipe(N) ==
    /\ today = 1
    /\ pc = [i \in 1..N |-> "idle"]
    /\ fetched = [i \in 1..N |-> NotFetched]
    /\ steps = [i \in 1..N |-> <<>>]
    /\ guardDay = [i \in 1..N |-> 0]
    /\ guardWrites = [i \in 1..N |-> 0]
    /\ markSeq = [i \in 1..N |-> 0]
    /\ markWrites = 0
    /\ chartDay = [i \in 1..N |-> 0]
    /\ tableDay = [i \in 1..N |-> 0]
    /\ errorSent = [i \in 1..N |-> FALSE]

PipeIdle == marker = NoFile /\ InitPipe(0)

InitEngine ==
    /\ \E L \in 1..MaxLen :
          \E vals \in [1..L -> Values], ord \in Orders(L) :
             rates = RatesOf(vals, ord)
    /\ result = Pending
    /\ PipeIdle

ProcessReturns ==
    /\ result = Pending
    /\ LET r == process_prices(rates)
       IN  ~r.raised /\ result' = r
    /\ UNCHANGED <<rates, pipeVars>>

ProcessFails ==
    /\ result = Pending
    /\ LET r == process_prices(rates)
       IN  r.raised /\ result' = r
    /\ UNCHANGED <<rates, pipeVars>>

NextEngine == ProcessReturns \/ ProcessFails

SpecEngine == InitEngine /\ [][NextEngine]_vars

-----------------------------------------------------------------------------
(* Pipeline: invocations of main.                                           *)

Invocations == DOMAIN pc

Terminal == {"gated", "done", "reported", "crashed"}

FullSteps == <<"fetch_tomorrow_rates", "plot_prices", "process_prices",
               "plot_price_table", "send_chart", "send_table">>

(* What the rate source may return: nothing, a series shorter than the      *)
(* longest window, a series of eight slots (latest first, as the API does). *)
FetchResults ==
    { <<>>,
      RatesOf(<<502, -100>>, <<2, 1>>),
      RatesOf(<<502, 502, -100, 502, 502, 502, -100, 502>>,
              <<8, 7, 6, 5, 4, 3, 2, 1>>) }

(* A guard that only looks at whether the marker file exists. *)
has_already_run_today_any_date(m, d) == m.exists

(* A guard that never reports a previous run. *)
has_already_run_today_never(m, d) == FALSE

(* f.read().strip() == today's date as %Y-%m-%d *)
has_already_run_today(m, d) ==
    IF ~m.exists THEN FALSE ELSE m.text = <<d>>

(* main, lines 276-278, and entry into the try block *)
Start(i) ==
    /\ pc[i] = "idle"
    /\ guardDay' = [guardDay EXCEPT ![i] = today]
    /\ guardWrites' = [guardWrites EXCEPT ![i] = markWrites]
    /\ pc' = [pc EXCEPT ![i] = IF has_already_run_today(marker, today)
                               THEN "gated" ELSE "fetch"]
    /\ UNCHANGED <<rates, result, marker, today, fetched, steps, markSeq,
                   markWrites, chartDay, tableDay, errorSent>>

(* Invocations one after the other: the scheduler starts the next one only  *)
(* when every earlier one has ended.                                        *)
StartSequential(i) ==
    /\ \A j \in Invocations : j < i => pc[j] \in Terminal
    /\ \A j \in Invocations : j > i => pc[j] = "idle"
    /\ Start(i)

(* Fetch without the "if not rates: raise" check. *)
FetchNoEmptyCheck(i) ==
    /\ pc[i] = "fetch"
    /\ \/ /\ \E r \in FetchResults :
               fetched' = [fetched EXCEPT ![i] = [got |-> TRUE, rates |-> r]]
          /\ pc' = [pc EXCEPT ![i] = "plot_prices"]
          /\ steps' = [steps EXCEPT ![i] = Append(@, "fetch_tomorrow_rates")]
       \/ /\ pc' = [pc EXCEPT ![i] = "except"]
          /\ UNCHANGED <<fetched, steps>>
    /\ UNCHANGED <<rates, result, marker, today, guardDay, guardWrites,
                   markSeq, markWrites, chartDay, tableDay, errorSent>>

(* rates = fetch_tomorrow_rates(); if not rates: raise ValueError *)
Fetch(i) ==
    /\ pc[i] = "fetch"
    /\ \/ /\ \E r \in FetchResults :
               /\ fetched' = [fetched EXCEPT ![i] = [got |-> TRUE, rates |-> r]]
               /\ IF Len(r) = 0
                  THEN /\ pc' = [pc EXCEPT ![i] = "except"]
                       /\ steps' = steps
                  ELSE /\ pc' = [pc EXCEPT ![i] = "plot_prices"]
                       /\ steps' = [steps EXCEPT ![i] =
                                      Append(@, "fetch_tomorrow_rates")]
       \/ /\ pc' = [pc EXCEPT ![i] = "except"]
          /\ UNCHANGED <<fetched, steps>>
    /\ UNCHANGED <<rates, result, marker, today, guardDay, guardWrites,
                   markSeq, markWrites, chartDay, tableDay, errorSent>>

(* plot_prices(rates): writes the chart image, or raises *)
PlotPrices(i) ==
    /\ pc[i] = "plot_prices"
    /\ \/ /\ pc' = [pc EXCEPT ![i] = "process_prices"]
          /\ steps' = [steps EXCEPT ![i] = Append(@, "plot_prices")]
       \/ /\ pc' = [pc EXCEPT ![i] = "except"]
          /\ steps' = steps
    /\ UNCHANGED <<rates, result, marker, today, fetched, guardDay,
                   guardWrites, markSeq, markWrites, chartDay, tableDay,
                   errorSent>>

(* result_df = process_prices(rates) *)
ProcessPrices(i) ==
    /\ pc[i] = "process_prices"
    /\ IF process_prices(fetched[i].rates).raised
       THEN /\ pc' = [pc EXCEPT ![i] = "except"]
            /\ steps' = steps
       ELSE /\ pc' = [pc EXCEPT ![i] = "plot_price_table"]
            /\ steps' = [steps EXCEPT ![i] = Append(@, "process_prices")]
    /\ UNCHANGED <<rates, result, marker, today, fetched, guardDay,
                   guardWrites, markSeq, markWrites, chartDay, tableDay,
                   errorSent>>

(* plot_price_table(result_df, save_path=...): writes the table image *)
PlotPriceTable(i) ==
    /\ pc[i] = "plot_price_table"
    /\ \/ /\ pc' = [pc EXCEPT ![i] = "send_chart"]
          /\ steps' = [steps EXCEPT ![i] = Append(@, "plot_price_table")]
       \/ /\ pc' = [pc EXCEPT ![i] = "except"]
          /\ steps' = steps
    /\ UNCHANGED <<rates, result, marker, today, fetched, guardDay,
                   guardWrites, markSeq, markWrites, chartDay, tableDay,
                   errorSent>>

(* await send_chart() *)
SendChart(i) ==
    /\ pc[i] = "send_chart"
    /\ \/ /\ pc' = [pc EXCEPT ![i] = "send_table"]
          /\ steps' = [steps EXCEPT ![i] = Append(@, "send_chart")]
          /\ chartDay' = [chartDay EXCEPT ![i] = today]
       \/ /\ pc' = [pc EXCEPT ![i] = "except"]
          /\ UNCHANGED <<steps, chartDay>>
    /\ UNCHANGED <<rates, result, marker, today, fetched, guardDay,
                   guardWrites, markSeq, markWrites, tableDay, errorSent>>

(* await send_table() *)
SendTable(i) ==
    /\ pc[i] = "send_table"
    /\ \/ /\ pc' = [pc EXCEPT ![i] = "mark"]
          /\ steps' = [steps EXCEPT ![i] = Append(@, "send_table")]
          /\ tableDay' = [tableDay EXCEPT ![i] = today]
       \/ /\ pc' = [pc EXCEPT ![i] = "except"]
          /\ UNCHANGED <<steps, tableDay>>
    /\ UNCHANGED <<rates, result, marker, today, fetched, guardDay,
                   guardWrites, markSeq, markWrites, chartDay, errorSent>>

(* mark_as_run_today(): open(LAST_RUN_FILE, "w") truncates, write stores    *)
(* today's date.  It can fail before the open (file untouched) or between   *)
(* the open and the write (file left empty).                                *)
mark_as_run_today(i) ==
    /\ pc[i] = "mark"
    /\ \/ /\ marker' = FileWith(<<today>>)
          /\ markWrites' = markWrites + 1
          /\ markSeq' = [markSeq EXCEPT ![i] = markWrites + 1]
          /\ pc' = [pc EXCEPT ![i] = "done"]
       \/ /\ marker' \in {marker, FileWith(<<>>)}
          /\ pc' = [pc EXCEPT ![i] = "except"]
          /\ UNCHANGED <<markWrites, markSeq>>
    /\ UNCHANGED <<rates, result, today, fetched, steps, guardDay,
                   guardWrites, chartDay, tableDay, errorSent>>

(* An except handler that also marks the day as run. *)
SendErrorAndMark(i) ==
    /\ pc[i] = "except"
    /\ \/ /\ pc' = [pc EXCEPT ![i] = "reported"]
          /\ errorSent' = [errorSent EXCEPT ![i] = TRUE]
       \/ /\ pc' = [pc EXCEPT ![i] = "crashed"]
          /\ errorSent' = errorSent
    /\ marker' = FileWith(<<today>>)
    /\ UNCHANGED <<rates, result, today, fetched, steps, guardDay,
                   guardWrites, markSeq, markWrites, chartDay, tableDay>>

(* except Exception as e: await send_error(str(e)) *)
SendError(i) ==
    /\ pc[i] = "except"
    /\ \/ /\ pc' = [pc EXCEPT ![i] = "reported"]
          /\ errorSent' = [errorSent EXCEPT ![i] = TRUE]
       \/ /\ pc' = [pc EXCEPT ![i] = "crashed"]
          /\ errorSent' = errorSent
    /\ UNCHANGED <<rates, result, marker, today, fetched, steps, guardDay,
                   guardWrites, markSeq, markWrites, chartDay, tableDay>>

(* Midnight in Europe/London. *)
Tick ==
    /\ today < MaxDay
    /\ today' = today + 1
    /\ UNCHANGED <<rates, result, marker, pc, fetched, steps, guardDay,
                   guardWrites, markSeq, markWrites, chartDay, tableDay,
                   errorSent>>

Body(i) ==
    \/ Fetch(i)
    \/ PlotPrices(i)
    \/ ProcessPrices(i)
    \/ PlotPriceTable(i)
    \/ SendChart(i)
    \/ SendTable(i)
    \/ mark_as_run_today(i)
    \/ SendError(i)

InitMain(N) ==
    /\ rates = <<>>
    /\ result = Pending
    /\ marker \in {NoFile, FileWith(<<0>>)}
    /\ InitPipe(N)

InitSeq == InitMain(MaxInv)

NextSeq ==
    \/ \E i \in Invocations : StartSequential(i)
    \/ \E i \in Invocations : Body(i)
    \/ Tick

SpecSeq == InitSeq /\ [][NextSeq]_vars

(* Two invocations of main that may overlap. *)
InitConc == InitMain(2)

NextConc ==
    \/ \E i \in Invocations : Start(i)
    \/ \E i \in Invocations : Body(i)
    \/ Tick

SpecConc == InitConc /\ [][NextConc]_vars

-----------------------------------------------------------------------------
(* Reference quantities, computed from the input rates by slot number.      *)

Returned == result # Pending /\ ~result.raised

SlotCost(rs, t) ==
    rs[CHOOSE k \in 1..Len(rs) : rs[k].valid_from = t].value_exc_vat
        * charge_rate_30_min

(* Sum of cost over slots t..min(t+n, L): the window of spec step 2. *)
RECURSIVE SlotSum(_, _, _)
SlotSum(rs, a, b) ==
    IF a > b \/ a > Len(rs) THEN 0 ELSE SlotCost(rs, a) + SlotSum(rs, a + 1, b)

W(rs, t, n) == SlotSum(rs, t, t + n)

(* Start slots whose window of n+1 slots lies wholly inside the series. *)
CompleteStarts(rs, n) == {t \in 1..Len(rs) : t + n <= Len(rs)}

(* C1: for every duration n and start slot i of the sorted series, the      *)
(* window-sum assigned to slot i is present and equals the sum of cost over *)
(* slots i..min(i+n, L-1); a window running past the end is the partial sum.*)
C1_TailTruncation ==
    LET df == SortedFrame(rates)
    IN  \A n \in Durations : \A i \in 1..Len(df) :
            LET x == DurationColumn(df, n)[i]
            IN  /\ ~IsNaN(x)
                /\ Val(x) = W(rates, df[i].valid_from, n)

(* C2: on every non-empty series process_prices returns, without raising,   *)
(* exactly seven rows, one per duration 1.0h .. 4.0h.                       *)
C2_TotalOnNonEmpty ==
    (result # Pending /\ Len(rates) >= 1) =>
        /\ ~result.raised
        /\ Len(result.rows) = 7
        /\ \A n \in Durations : result.rows[n].hours = 5 * n + 5

(* C3: the reported agile_price is at most W(i, n) plus the variable        *)
(* standing charge for every start slot i, truncated tail windows included. *)
C3_Minimality ==
    Returned =>
        \A n \in Durations : \A t \in 1..Len(rates) :
            result.rows[n].agile_price <= Round1(W(rates, t, n) + agile_sc)

(* C4: among the start slots attaining the minimum window-sum of a          *)
(* duration, process_prices reports the one with the earliest valid_from,   *)
(* whatever the order of the input.                                         *)
C4_TieBreakEarliest ==
    Returned =>
        \A n \in Durations :
            LET t0 == result.rows[n].time
            IN  /\ t0 \in CompleteStarts(rates, n)
                /\ \A t \in CompleteStarts(rates, n) :
                      /\ W(rates, t0, n) <= W(rates, t, n)
                      /\ t < t0 => W(rates, t0, n) < W(rates, t, n)

C4_Witness ==
    /\ Returned
    /\ rates[1].valid_from # 1
    /\ \E n \in Durations : \E t \in CompleteStarts(rates, n) :
          /\ t > result.rows[n].time
          /\ W(rates, t, n) = W(rates, result.rows[n].time, n)

(* C5 as stated: on the rounded output values, winner is "go" exactly when  *)
(* go_price < agile_price, and price_diff = |go_price - agile_price|.       *)
C5_ConsistentAfterRounding ==
    Returned =>
        \A n \in Durations :
            LET r == result.rows[n]
            IN  /\ r.winner = (IF r.go_price < r.agile_price THEN "go" ELSE "agile")
                /\ r.price_diff = Abs(r.go_price - r.agile_price)

(* C5 amended: winner is "go" exactly when the flat cost is below the       *)
(* dynamic cost before rounding; on the rounded outputs the winner's cost   *)
(* is never above the other's, and price_diff is within one tenth of the    *)
(* absolute difference of the two rounded costs.                            *)
C5_ConsistentBeforeRounding ==
    Returned =>
        \A n \in Durations :
            LET r == result.rows[n]
                flat == GO_PRICE * (n + 1) * charge_rate_30_min * 100 + go_sc
                dyn == agile_sc + W(rates, r.time, n)
            IN  /\ r.winner = (IF flat < dyn THEN "go" ELSE "agile")
                /\ r.winner = "go" => r.go_price <= r.agile_price
                /\ r.winner = "agile" => r.agile_price <= r.go_price
                /\ Abs(r.price_diff - Abs(r.go_price - r.agile_price)) <= 1

C5_Witness ==
    /\ Returned
    /\ \E n \in Durations :
          /\ result.rows[n].winner = "go"
          /\ result.rows[n].go_price = result.rows[n].agile_price
    /\ \E n \in Durations : result.rows[n].winner = "agile"

-----------------------------------------------------------------------------
(* Claims about main.                                                       *)

Failed == {"except", "reported", "crashed"}

InTry == {"fetch", "plot_prices", "process_prices", "plot_price_table",
          "send_chart", "send_table"}

ChartsOn(d) == {i \in Invocations : chartDay[i] = d}

TablesOn(d) == {i \in Invocations : tableDay[i] = d}

EmptyFetch(i) == fetched[i].got /\ Len(fetched[i].rates) = 0

(* C6: an invocation whose fetch returned no rates runs neither plot_prices *)
(* nor process_prices nor plot_price_table nor send_chart nor send_table    *)
(* nor the marker write; it goes to the handler and the only message it can *)
(* post is the error notification.                                          *)
C6_EmptyAborts ==
    \A i \in Invocations :
        EmptyFetch(i) =>
            /\ pc[i] \in Failed
            /\ steps[i] = <<>>
            /\ chartDay[i] = 0
            /\ tableDay[i] = 0
            /\ markSeq[i] = 0
            /\ pc[i] = "reported" => errorSent[i]

C6_Witness ==
    \E i \in Invocations :
        EmptyFetch(i) /\ pc[i] = "reported" /\ errorSent[i]

(* C7: the marker file changes only in a step of an invocation that is at   *)
(* mark_as_run_today after fetch, plot_prices, process_prices,              *)
(* plot_price_table, send_chart and send_table returned in that order; a    *)
(* failing step of the try block leaves the marker as it was; and after a   *)
(* failed invocation the guard of the same day is still false.              *)
C7_MarkerOnlyOnSuccess ==
    /\ [][marker' # marker =>
            \E i \in Invocations : pc[i] = "mark" /\ steps[i] = FullSteps]_vars
    /\ [][\A i \in Invocations :
            (pc[i] \in InTry /\ pc'[i] = "except") => marker' = marker]_vars
    /\ [](\A i \in Invocations :
            (pc[i] \in Failed /\ \A j \in Invocations : j > i => pc[j] = "idle")
                => ~(marker.exists /\ marker.text = <<guardDay[i]>>))

C7_Witness ==
    \E i, j \in Invocations :
        /\ i < j
        /\ pc[i] = "reported" /\ chartDay[i] = today /\ tableDay[i] = 0
        /\ pc[j] = "done" /\ guardDay[j] = guardDay[i]
        /\ marker = FileWith(<<today>>)

(* C8: over sequential invocations within one day, any of whose steps may   *)
(* fail, the chart is posted at most once and the table at most once.       *)
C8_OncePerDay ==
    \A d \in 1..MaxDay :
        Cardinality(ChartsOn(d)) <= 1 /\ Cardinality(TablesOn(d)) <= 1

(* C9: an invocation that starts while the marker file holds today's date   *)
(* ends at once, changing nothing: no fetch, no render, no chart, table or  *)
(* error post, no marker write; one that starts with the file absent or     *)
(* holding anything else goes on to the fetch.                              *)
C9_EntryGuard ==
    /\ [][\A i \in Invocations :
            (pc[i] = "idle" /\ pc'[i] # "idle") =>
                IF marker.exists /\ marker.text = <<today>>
                THEN /\ pc'[i] = "gated"
                     /\ UNCHANGED <<marker, fetched, steps, chartDay, tableDay,
                                    errorSent, markSeq, markWrites>>
                ELSE pc'[i] = "fetch"]_vars
    /\ [](\A i \in Invocations :
            pc[i] = "gated" =>
                /\ ~fetched[i].got
                /\ steps[i] = <<>>
                /\ chartDay[i] = 0 /\ tableDay[i] = 0
                /\ ~errorSent[i]
                /\ markSeq[i] = 0)

C9_Witness ==
    \E i, j \in Invocations :
        /\ pc[j] = "done" /\ markSeq[j] = 1
        /\ pc[i] = "gated" /\ guardWrites[i] = 1
        /\ guardDay[i] = guardDay[j]
        /\ marker = FileWith(<<guardDay[i]>>)

(* Both invocations read the marker before either wrote it. *)
Interleaved(p, q) ==
    guardWrites[p] < markSeq[q] /\ guardWrites[q] < markSeq[p]

(* C10: two invocations that both ran every step successfully and posted    *)
(* the chart on the same day did so by the check-then-mark race: each       *)
(* evaluated has_already_run_today before the other wrote the marker.  The  *)
(* doubly posted state is C10_Witness.                                      *)
C10_DoublePostByRace ==
    \A p, q \in Invocations :
        ( /\ p # q
          /\ pc[p] = "done" /\ pc[q] = "done"
          /\ chartDay[p] = chartDay[q]
          /\ \A r \in Invocations : pc[r] \notin Failed )
            => Interleaved(p, q)

C10_Witness ==
    \E p, q \in Invocations :
        /\ p # q
        /\ pc[p] = "done" /\ pc[q] = "done"
        /\ chartDay[p] = today /\ chartDay[q] = today
        /\ tableDay[p] = today /\ tableDay[q] = today
        /\ \A r \in Invocations : pc[r] \notin Failed

====
